---- MODULE Spec2Model ----
(***************************************************************************)
(* The workflow execution engine of src/lib/execution/engine.ts            *)
(* (class ExecutionEngine) as a state machine.                             *)
(*                                                                         *)
(* JavaScript runs one task at a time, so a step of the model is the code  *)
(* that runs between two suspension points.  The only suspension point of  *)
(* the engine is `await blockConfig.run(context)` (engine.ts:147): while a *)
(* block is in flight the caller may call stop(), the block may call the   *)
(* accessors of its context, and another call of executeWorkflow may be    *)
(* made on the same engine.                                                *)
(***************************************************************************)
EXTENDS Integers, Sequences, FiniteSets, TLC

\* ------------------------------------------------------------------ bounds
MaxNodes == 3       \* node ids are 1..MaxNodes
MaxEdges == 3       \* edges of a workflow
MaxRuns  == 2       \* calls of executeWorkflow on the one engine
MaxCalls == 2       \* context accessor calls (setNodeOutput, log) the blocks of a run make
MaxVal   == 2       \* numbers a block sets or puts in a returned record are 1..MaxVal

Ids  == 1..MaxNodes
Runs == 1..MaxRuns

\* ------------------------------------------------------- small utilities
EmptyFn == [x \in {} |-> x]

None == {}

Some(x) == {x}

Put(f, k, v) == [x \in (DOMAIN f) \cup {k} |-> IF x = k THEN v ELSE f[x]]

\* { ...a, ...b }  (engine.ts:156-159 and 166-169)
Spread(a, b) == [k \in (DOMAIN a) \cup (DOMAIN b) |-> IF k \in DOMAIN b THEN b[k] ELSE a[k]]

\* -------------------------------------------------------- JavaScript values
\* a value is [t, n, f]: its type tag, its number (numbers only) and its
\* own properties key -> value (objects only)
Num(n) == [f |-> EmptyFn, n |-> n, t |-> "number"]

JsNull == [f |-> EmptyFn, n |-> 0, t |-> "null"]

JsUndefined == [f |-> EmptyFn, n |-> 0, t |-> "undefined"]

JsArray == [f |-> EmptyFn, n |-> 0, t |-> "array"]

Obj(f) == [f |-> f, n |-> 0, t |-> "object"]

\* ToBoolean(x): null, undefined and 0 are falsy
Truthy(x) == ~(x.t \in {"null", "undefined"} \/ (x.t = "number" /\ x.n = 0))

\* typeof x === 'object'
TypeofObject(x) == x.t \in {"object", "array", "null"}

\* Array.isArray(x)
IsArray(x) == x.t = "array"

\* result && typeof result === 'object' && !Array.isArray(result)
IsRecordResult(result) == Truthy(result) /\ TypeofObject(result) /\ ~IsArray(result)

\* ------------------------------------------------------------ block registry
blockRegistry == {"starter", "api"}

getBlockConfig(type) == IF type \in blockRegistry THEN Some(type) ELSE None

\* ------------------------------------------------------------------ workflow
NoNode == 0

\* the reserved node id '*' of getNodeOutput (node ids are numbers here)
Wildcard == -1

HasNode(workflow, id) == \E i \in 1..Len(workflow.nodes) : workflow.nodes[i].id = id

\* workflow.nodes.find(n => n.id === id)
FindNode(workflow, id) ==
    workflow.nodes[CHOOSE i \in 1..Len(workflow.nodes) :
        /\ workflow.nodes[i].id = id
        /\ \A j \in 1..(i - 1) : workflow.nodes[j].id # id]

\* the ids of getConnectedNodes(workflow, fromNodeId), in the order of workflow.nodes
getConnectedNodes(workflow, fromNodeId) ==
    LET connectedNodeIds == {e[2] : e \in {d \in workflow.edges : d[1] = fromNodeId}}
        hit(n) == n.id \in connectedNodeIds
        picked == SelectSeq(workflow.nodes, hit)
    IN  [i \in 1..Len(picked) |-> picked[i].id]

\* validateWorkflow: the message of the Error it throws, or "ok"
validateWorkflow(workflow) ==
    IF Len(workflow.nodes) = 0 THEN "Workflow has no nodes"
    ELSE IF ~HasNode(workflow, workflow.starterId) THEN "Start node not found"
    ELSE "ok"

\* ------------------------------------------------------------ execution log
\* this.log(execution, level, message, nodeId): message is <<text, argument>>
log(execution, level, message, nodeId) ==
    [execution EXCEPT !.logs = Append(@, [level |-> level, message |-> message, nodeId |-> nodeId])]

NoNodeId == 0

Msg(text, node, error) == [text |-> text, node |-> node, error |-> error]

\* error instanceof Error ? error.message : 'Unknown error'
ErrorMessage(thrown) == IF thrown.isError THEN thrown.message ELSE "Unknown error"

Err(message) == [message |-> message, isError |-> TRUE]

AbortMessage == "The operation was aborted"

\* ------------------------------------------------------------------- state
VARIABLES
    abortController,  \* this.abortController: 0 (null) or the run whose call created it
    aborted,          \* aborted[c]: signal.aborted of the controller created by run c
    pc,               \* pc[r]: "idle" (not called), "await" (engine.ts:147), "done" (the
                      \* promise fulfilled with execution[r]), "rejected" (the promise rejected)
    workflow,         \* the argument of call r
    execution,        \* the WorkflowExecution of call r (engine.ts:20-27)
    queue,            \* the local `queue` of call r
    visited,          \* the local `visited` of call r
    nodeOutputs,      \* the local `nodeOutputs` of call r: node id -> (key -> value)
    cur,              \* the node whose block is in flight in call r
    signal,           \* the controller behind context.abortSignal of that block
    calls,            \* accessor calls the blocks of call r have made
    written,          \* what the blocks did: node id -> the (key -> value) it passed to setNodeOutput
    outcome,          \* what the blocks did: node id -> Return(result) or Throw(thrown)
    onLog,            \* this.onLog: what the observer given to the constructor does
    onNodeUpdate,     \* this.onNodeUpdate: likewise
    updates,          \* what onNodeUpdate was called with in call r: [nodeId, status], in order
    allNodeOutputs,   \* the value a block of call r got from getNodeOutput('*'): the node
                      \* that holds it, and what a snapshot taken at the call would show
    fetching,         \* the outbound call a block of call r made through context.fetch:
                      \* the node that made it, and the signal that governs it
    currentExecution, \* the store's currentExecution (copilot.ts:1307)
    isExecuting,      \* the store's isExecuting (copilot.ts:1308)
    engine            \* the store's _engine: 0 (undefined) or the run whose engine it is

vars == <<abortController, aborted, pc, workflow, execution, queue, visited,
          nodeOutputs, cur, signal, calls, written, outcome, onLog, onNodeUpdate, updates,
          allNodeOutputs, fetching, currentExecution, isExecuting, engine>>

\* the fields of the store that startExecution and stopExecution write
storeState == <<currentExecution, isExecuting, engine>>

\* an observer argument of the constructor (engine.ts:9-15): undefined, a
\* function that returns, or a function that throws
Observers == {"none", "returns", "throws"}

ObserverError == [message |-> "observer failed", isError |-> TRUE]

NoWorkflow == [nodes |-> <<>>, edges |-> {}, starterId |-> 0]

NoExecution == [logs |-> <<>>, status |-> "idle", nodeExecutions |-> EmptyFn, endTime |-> FALSE]

\* currentExecution: null in the store
Null == [logs |-> <<>>, status |-> "null", nodeExecutions |-> EmptyFn, endTime |-> FALSE]

\* the engine after new ExecutionEngine(l, u), and the store as created
Constructed(l, u) ==
    /\ onLog = l
    /\ onNodeUpdate = u
    /\ updates = [r \in Runs |-> <<>>]
    /\ allNodeOutputs = [r \in Runs |-> [node |-> NoNode, seen |-> EmptyFn]]
    /\ fetching = [r \in Runs |-> [node |-> NoNode, signal |-> "none"]]
    /\ abortController = 0
    /\ aborted = [c \in Runs |-> FALSE]
    /\ pc = [r \in Runs |-> "idle"]
    /\ workflow = [r \in Runs |-> NoWorkflow]
    /\ execution = [r \in Runs |-> NoExecution]
    /\ queue = [r \in Runs |-> <<>>]
    /\ visited = [r \in Runs |-> {}]
    /\ nodeOutputs = [r \in Runs |-> EmptyFn]
    /\ cur = [r \in Runs |-> NoNode]
    /\ signal = [r \in Runs |-> 0]
    /\ calls = [r \in Runs |-> 0]
    /\ written = [r \in Runs |-> EmptyFn]
    /\ outcome = [r \in Runs |-> EmptyFn]
    /\ currentExecution = Null
    /\ isExecuting = FALSE
    /\ engine = 0

\* the engine with two observers that return
Init == Constructed("returns", "returns")

\* the engine with any two observers
InitObs == \E l \in Observers, u \in Observers : Constructed(l, u)

\* this.abortController?.signal.aborted, read now
EngineAborted == abortController # 0 /\ aborted[abortController]

\* ------------------------------------------------- the body of executeWorkflow
\* A frame L holds the locals of one call: execution, queue, visited,
\* nodeOutputs, and where the call stands: next (the node handed to
\* executeNode), pc, signal; updates is what onNodeUpdate received.

\* engine.ts:29: this.log calls this.onLog (engine.ts:251) before the try at
\* engine.ts:31, so what the observer throws rejects the promise of the async
\* function; the record is neither finalized nor returned
rejected(L) == [L EXCEPT !.pc = "rejected", !.next = NoNode]

\* finalize without the assignments at engine.ts:88-89: the record is returned
\* with no endTime
finalizeOpen(L) == [L EXCEPT !.pc = "done", !.next = NoNode]

\* engine.ts:88-91
finalize(L) == [L EXCEPT !.execution.endTime = TRUE, !.pc = "done", !.next = NoNode]

\* engine.ts:77-80 then 88-91
loopExit(L) ==
    IF L.execution.status # "cancelled"
    THEN finalize([L EXCEPT !.execution =
            log([@ EXCEPT !.status = "success"], "info", Msg("Workflow completed", NoNodeId, ""), NoNodeId)])
    ELSE finalize(L)

\* outerCatch with `throw error` at the end of the catch at engine.ts:82-86: the
\* failure leaves executeWorkflow and its promise rejects
outerCatchRethrow(L, thrown) ==
    LET e1 == [L.execution EXCEPT !.status = "error"]
        e2 == log(e1, "error", Msg("Workflow failed", NoNodeId, ErrorMessage(thrown)), NoNodeId)
    IN  rejected([L EXCEPT !.execution = e2])

\* engine.ts:82-86 then 88-91
outerCatch(L, thrown) ==
    LET e1 == [L.execution EXCEPT !.status = "error"]
        e2 == log(e1, "error", Msg("Workflow failed", NoNodeId, ErrorMessage(thrown)), NoNodeId)
    IN  finalize([L EXCEPT !.execution = e2])

\* engine.ts:63-69 then the outer catch, for a rejection of executeNode that
\* did not pass through executeNode's own catch (thrown at engine.ts:108 or 187)
executeNodeRejected(L, node, thrown) ==
    LET e1 == [L.execution EXCEPT !.status = "error"]
        e2 == log(e1, "error", Msg("Node failed in workflow", node.id, ErrorMessage(thrown)), NoNodeId)
    IN  outerCatch([L EXCEPT !.execution = e2], thrown)

\* this.onNodeUpdate?.(node.id, nodeExecution), engine.ts:108 and 187: what the
\* observer has received after the call
notify(L, nodeId, status) ==
    IF onNodeUpdate = "none" THEN L
    ELSE [L EXCEPT !.updates = Append(@, [nodeId |-> nodeId, status |-> status])]

\* nodeFailed with `break` at engine.ts:68 in place of `throw error`: the
\* failure leaves the loop and execution continues at engine.ts:77
nodeFailedBreak(L, node, thrown) ==
    LET ne == [L.execution.nodeExecutions[node.id] EXCEPT
                  !.status = "error", !.error = Some(ErrorMessage(thrown)), !.endTime = TRUE]
        e1 == [L.execution EXCEPT !.nodeExecutions[node.id] = ne]
        e2 == log(e1, "error", Msg("Node failed", NoNodeId, ErrorMessage(thrown)), node.id)
        e3 == [e2 EXCEPT !.status = "error"]
        e4 == log(e3, "error", Msg("Node failed in workflow", node.id, ErrorMessage(thrown)), NoNodeId)
    IN  loopExit([L EXCEPT !.execution = e4])

\* engine.ts:177-185 (executeNode's catch), then 63-69, then the outer catch
nodeFailed(L, node, thrown) ==
    LET ne == [L.execution.nodeExecutions[node.id] EXCEPT
                  !.status = "error", !.error = Some(ErrorMessage(thrown)), !.endTime = TRUE]
        e1 == [L.execution EXCEPT !.nodeExecutions[node.id] = ne]
        e2 == log(e1, "error", Msg("Node failed", NoNodeId, ErrorMessage(thrown)), node.id)
        e3 == [e2 EXCEPT !.status = "error"]
        e4 == log(e3, "error", Msg("Node failed in workflow", node.id, ErrorMessage(thrown)), NoNodeId)
    IN  outerCatch([L EXCEPT !.execution = e4], thrown)

\* executeNodeBegin without the check at engine.ts:116-119: a node of any type
\* is handed to a block
executeNodeBeginUnchecked(w, L, nodeId, ctl) ==
    LET node == FindNode(w, nodeId)
        nodeExecution == [nodeId |-> node.id, status |-> "running", outputs |-> None,
                          error |-> None, endTime |-> FALSE]
        e1 == [L.execution EXCEPT !.nodeExecutions = Put(@, node.id, nodeExecution)]
        L1 == notify([L EXCEPT !.execution = e1], node.id, "running")
        e2 == IF node.type # "starter"
              THEN log(e1, "info", Msg("node started", NoNodeId, node.type), node.id)
              ELSE e1
        L2 == [L1 EXCEPT !.execution = e2]
    IN  IF onNodeUpdate = "throws"
        THEN executeNodeRejected(L1, node, ObserverError)
        ELSE [L2 EXCEPT !.pc = "await", !.next = node.id, !.signal = ctl]

\* engine.ts:101-147: executeNode up to the await of the block
executeNodeBegin(w, L, nodeId, ctl) ==
    LET node == FindNode(w, nodeId)
        nodeExecution == [nodeId |-> node.id, status |-> "running", outputs |-> None,
                          error |-> None, endTime |-> FALSE]
        e1 == [L.execution EXCEPT !.nodeExecutions = Put(@, node.id, nodeExecution)]
        L1 == notify([L EXCEPT !.execution = e1], node.id, "running")
        e2 == IF node.type # "starter"
              THEN log(e1, "info", Msg("node started", NoNodeId, node.type), node.id)
              ELSE e1
        L2 == [L1 EXCEPT !.execution = e2]
    IN  IF onNodeUpdate = "throws"
        THEN executeNodeRejected(L1, node, ObserverError)
        ELSE IF getBlockConfig(node.type) = None
        THEN nodeFailed(L2, node, Err("Block type not found or not executable"))
        ELSE [L2 EXCEPT !.pc = "await", !.next = node.id, !.signal = ctl]

\* engine.ts:48-59: the iterations of the while loop up to the next call of
\* executeNode (next is its node) or to the exit of the loop (next = NoNode)
RECURSIVE whileQueue(_, _, _)
whileQueue(w, L, ab) ==
    IF Len(L.queue) = 0 THEN [L EXCEPT !.next = NoNode]
    ELSE IF ab THEN [L EXCEPT !.execution.status = "cancelled", !.next = NoNode]
    ELSE LET nodeId == Head(L.queue)
             L1 == [L EXCEPT !.queue = Tail(@)]
         IN  IF nodeId \in L1.visited THEN whileQueue(w, L1, ab)
             ELSE LET L2 == [L1 EXCEPT !.visited = @ \cup {nodeId}]
                  IN  IF ~HasNode(w, nodeId) THEN whileQueue(w, L2, ab)
                      ELSE [L2 EXCEPT !.next = nodeId]

\* runLoop with a `visited` that is empty at each turn of the loop, so that the
\* check at engine.ts:53 skips nothing
runLoopRevisit(w, L, ab, ctl) ==
    LET D == whileQueue(w, [L EXCEPT !.visited = {}], ab)
    IN  IF D.next = NoNode THEN loopExit(D) ELSE executeNodeBegin(w, D, D.next, ctl)

\* engine.ts:48-80: run the loop from its head until the call suspends or returns;
\* ab and ctl are this.abortController's signal.aborted and identity during the step
runLoop(w, L, ab, ctl) ==
    LET D == whileQueue(w, L, ab)
    IN  IF D.next = NoNode THEN loopExit(D) ELSE executeNodeBegin(w, D, D.next, ctl)

\* the frame of call r, and its write-back
Frame(r) == [execution |-> execution[r], queue |-> queue[r], visited |-> visited[r],
             nodeOutputs |-> nodeOutputs[r], next |-> cur[r], pc |-> pc[r], signal |-> signal[r],
             updates |-> updates[r]]

Store(r, L) ==
    /\ execution' = [execution EXCEPT ![r] = L.execution]
    /\ queue' = [queue EXCEPT ![r] = L.queue]
    /\ visited' = [visited EXCEPT ![r] = L.visited]
    /\ nodeOutputs' = [nodeOutputs EXCEPT ![r] = L.nodeOutputs]
    /\ cur' = [cur EXCEPT ![r] = L.next]
    /\ pc' = [pc EXCEPT ![r] = L.pc]
    /\ signal' = [signal EXCEPT ![r] = L.signal]
    /\ updates' = [updates EXCEPT ![r] = L.updates]

\* ---------------------------------------------------------------- actions
NoThrown == [message |-> "none", isError |-> FALSE]

Return(result) == [result |-> result, thrown |-> NoThrown, kind |-> "return"]

Throw(thrown) == [result |-> JsUndefined, thrown |-> thrown, kind |-> "throw"]

\* engine.ts:19-92: the body of executeWorkflow up to its first suspension; ctl
\* is the controller created at engine.ts:18
executeWorkflowBody(w, ctl) ==
    LET e0 == [logs |-> <<>>, status |-> "running", nodeExecutions |-> EmptyFn, endTime |-> FALSE]
        e1 == log(e0, "info", Msg("Starting workflow", NoNodeId, ""), NoNodeId)
        L0 == [execution |-> e1, queue |-> <<>>, visited |-> {}, nodeOutputs |-> EmptyFn,
               next |-> NoNode, pc |-> "idle", signal |-> 0, updates |-> <<>>]
        v  == validateWorkflow(w)
    IN  IF onLog = "throws"
        THEN rejected(L0)
        ELSE IF v # "ok"
        THEN outerCatch(L0, Err(v))
        ELSE IF ~HasNode(w, w.starterId)
        THEN outerCatch(L0, Err("Start node not found"))
        ELSE runLoop(w, [L0 EXCEPT !.queue = <<w.starterId>>], FALSE, ctl)

\* executeWorkflow(workflow, env), engine.ts:17-92, up to its first suspension
executeWorkflow(r, w) ==
    /\ pc[r] = "idle"
    /\ IF r = 1 THEN TRUE ELSE pc[r - 1] # "idle"
    /\ abortController' = r
    /\ aborted' = [aborted EXCEPT ![r] = FALSE]
    /\ workflow' = [workflow EXCEPT ![r] = w]
    /\ \E D \in {executeWorkflowBody(w, r)} : Store(r, D)
    /\ UNCHANGED <<calls, written, outcome, onLog, onNodeUpdate, allNodeOutputs, fetching, storeState>>

\* setNodeOutput without the assignment at engine.ts:141: the call leaves the
\* registry as it was
setNodeOutputDropped(r, key, value) ==
    /\ pc[r] = "await"
    /\ calls[r] < MaxCalls
    /\ calls' = [calls EXCEPT ![r] = @ + 1]
    /\ LET had == IF cur[r] \in DOMAIN written[r] THEN written[r][cur[r]] ELSE EmptyFn
       IN  written' = [written EXCEPT ![r] = Put(@, cur[r], Put(had, key, value))]
    /\ UNCHANGED <<abortController, aborted, pc, workflow, execution, queue, visited, cur,
                   signal, outcome, nodeOutputs, onLog, onNodeUpdate, updates,
                   allNodeOutputs, fetching, storeState>>

\* context.setNodeOutput(key, value), engine.ts:137-142, called by the block in flight
setNodeOutput(r, key, value) ==
    /\ pc[r] = "await"
    /\ calls[r] < MaxCalls
    /\ LET slot == IF cur[r] \in DOMAIN nodeOutputs[r] THEN nodeOutputs[r][cur[r]] ELSE EmptyFn
       IN  nodeOutputs' = [nodeOutputs EXCEPT ![r] = Put(@, cur[r], Put(slot, key, value))]
    /\ calls' = [calls EXCEPT ![r] = @ + 1]
    /\ LET had == IF cur[r] \in DOMAIN written[r] THEN written[r][cur[r]] ELSE EmptyFn
       IN  written' = [written EXCEPT ![r] = Put(@, cur[r], Put(had, key, value))]
    /\ UNCHANGED <<abortController, aborted, pc, workflow, execution, queue, visited, cur,
                   signal, outcome, onLog, onNodeUpdate, updates, allNodeOutputs, fetching, storeState>>

\* context.log(message), engine.ts:128, called by the block in flight
contextLog(r) ==
    /\ pc[r] = "await"
    /\ calls[r] < MaxCalls
    /\ execution' = [execution EXCEPT ![r] = log(@, "info", Msg("block message", NoNodeId, ""), cur[r])]
    /\ calls' = [calls EXCEPT ![r] = @ + 1]
    /\ UNCHANGED <<abortController, aborted, pc, workflow, queue, visited, nodeOutputs, cur,
                   signal, written, outcome, onLog, onNodeUpdate, updates,
                   allNodeOutputs, fetching, storeState>>

\* context.getNodeOutput(nodeId, key) of a block of call r, engine.ts:129-136;
\* key = "" is the omitted key
getNodeOutput(r, nodeId, key) ==
    IF nodeId = Wildcard THEN [f |-> nodeOutputs[r], n |-> 0, t |-> "registry"]
    ELSE IF nodeId \notin DOMAIN nodeOutputs[r] THEN JsUndefined
    ELSE LET outputs == nodeOutputs[r][nodeId]
         IN  IF key # ""
             THEN (IF key \in DOMAIN outputs THEN outputs[key] ELSE JsUndefined)
             ELSE Obj(outputs)

\* `const allNodeOutputs = ctx.getNodeOutput('*')` in the block in flight
\* (src/unnamed/part_002:1247): the block keeps what engine.ts:131-133 returned
getAllNodeOutputs(r) ==
    /\ pc[r] = "await"
    /\ calls[r] < MaxCalls
    /\ allNodeOutputs' = [allNodeOutputs EXCEPT
                             ![r] = [node |-> cur[r], seen |-> getNodeOutput(r, Wildcard, "").f]]
    /\ calls' = [calls EXCEPT ![r] = @ + 1]
    /\ UNCHANGED <<abortController, aborted, pc, workflow, execution, queue, visited,
                   nodeOutputs, cur, signal, written, outcome, onLog, onNodeUpdate, updates,
                   fetching, storeState>>

\* what the block reads through the value it kept: engine.ts:131-133 returned
\* the object `nodeOutputs` itself, so the read shows its present contents
readAllNodeOutputs(r) == getNodeOutput(r, Wildcard, "").f

\* `allNodeOutputs[nodeId] = {...allNodeOutputs[nodeId], [key]: value}` in the
\* block that keeps the value, e.g. in the code of a function node
\* (function.ts:75-79 hands ctx to it): the assignment lands in `nodeOutputs`
assignAllNodeOutputs(r, nodeId, key, value) ==
    /\ pc[r] = "await"
    /\ allNodeOutputs[r].node = cur[r]
    /\ calls[r] < MaxCalls
    /\ LET slot == IF nodeId \in DOMAIN nodeOutputs[r] THEN nodeOutputs[r][nodeId] ELSE EmptyFn
       IN  nodeOutputs' = [nodeOutputs EXCEPT ![r] = Put(@, nodeId, Put(slot, key, value))]
    /\ LET seen == allNodeOutputs[r].seen
           slot == IF nodeId \in DOMAIN seen THEN seen[nodeId] ELSE EmptyFn
       IN  allNodeOutputs' = [allNodeOutputs EXCEPT ![r].seen = Put(seen, nodeId, Put(slot, key, value))]
    /\ calls' = [calls EXCEPT ![r] = @ + 1]
    /\ UNCHANGED <<abortController, aborted, pc, workflow, execution, queue, visited,
                   cur, signal, written, outcome, onLog, onNodeUpdate, updates, fetching, storeState>>

\* the signal that governs the native fetch of createFetchWithTimeout,
\* engine.ts:226-229: the caller's when init carries one, else the wrapper's
\* controller, which aborts with the engine's signal (engine.ts:219-224)
FetchSignal(init) == IF init.signal THEN "init" ELSE "controller"

\* `await ctx.fetch(url, init)` in the block in flight (api.ts:128), up to the
\* native fetch at engine.ts:226
contextFetch(r, init) ==
    /\ pc[r] = "await"
    /\ calls[r] < MaxCalls
    /\ fetching' = [fetching EXCEPT ![r] = [node |-> cur[r], signal |-> FetchSignal(init)]]
    /\ calls' = [calls EXCEPT ![r] = @ + 1]
    /\ UNCHANGED <<abortController, aborted, pc, workflow, execution, queue, visited,
                   nodeOutputs, cur, signal, written, outcome, onLog, onNodeUpdate, updates,
                   allNodeOutputs, storeState>>

\* the native fetch of the call in flight has been aborted: the wrapper's
\* controller is aborted by the listener on the engine signal the context was
\* built with (engine.ts:126, 219-224); a signal of the caller is not
FetchAborted(r) == fetching[r].signal = "controller" /\ aborted[signal[r]]

\* executeNodeEnd with the operands of the spread at engine.ts:166-169 swapped:
\* what the block set wins over what it returned
executeNodeEndSetWins(L, node, result) ==
    LET slot == IF node.id \in DOMAIN L.nodeOutputs THEN L.nodeOutputs[node.id] ELSE EmptyFn
        returnOutputs == IF IsRecordResult(result) THEN result.f
                         ELSE [k \in {"value"} |-> result]
        ne == [L.execution.nodeExecutions[node.id] EXCEPT
                  !.status = "success", !.outputs = Some(Spread(slot, returnOutputs)),
                  !.endTime = TRUE]
        no == IF IsRecordResult(result)
              THEN Put(L.nodeOutputs, node.id, Spread(result.f, slot))
              ELSE L.nodeOutputs
        e1 == [L.execution EXCEPT !.nodeExecutions[node.id] = ne]
        e2 == IF node.type # "starter"
              THEN log(e1, "info", Msg("node completed", NoNodeId, node.type), node.id)
              ELSE e1
    IN  notify([L EXCEPT !.execution = e2, !.nodeOutputs = no], node.id, "success")

\* engine.ts:149-175 and 187: executeNode after the block's promise fulfilled with `result`
executeNodeEnd(L, node, result) ==
    LET slot == IF node.id \in DOMAIN L.nodeOutputs THEN L.nodeOutputs[node.id] ELSE EmptyFn
        returnOutputs == IF IsRecordResult(result) THEN result.f
                         ELSE [k \in {"value"} |-> result]
        ne == [L.execution.nodeExecutions[node.id] EXCEPT
                  !.status = "success", !.outputs = Some(Spread(slot, returnOutputs)),
                  !.endTime = TRUE]
        no == IF IsRecordResult(result)
              THEN Put(L.nodeOutputs, node.id, Spread(slot, result.f))
              ELSE L.nodeOutputs
        e1 == [L.execution EXCEPT !.nodeExecutions[node.id] = ne]
        e2 == IF node.type # "starter"
              THEN log(e1, "info", Msg("node completed", NoNodeId, node.type), node.id)
              ELSE e1
    IN  notify([L EXCEPT !.execution = e2, !.nodeOutputs = no], node.id, "success")

\* pushNext that queues only the first of the successors at engine.ts:71-74
pushNextOne(w, L, nodeId) ==
    LET nextNodes == getConnectedNodes(w, nodeId)
        fresh(n) == n \notin L.visited
        added == SelectSeq(nextNodes, fresh)
    IN  [L EXCEPT !.queue = @ \o (IF Len(added) = 0 THEN <<>> ELSE <<Head(added)>>)]

\* engine.ts:71-74: queue the successors that are not visited yet
pushNext(w, L, nodeId) ==
    LET nextNodes == getConnectedNodes(w, nodeId)
        fresh(n) == n \notin L.visited
    IN  [L EXCEPT !.queue = @ \o SelectSeq(nextNodes, fresh)]

\* the block's promise fulfils with `result`: the rest of executeNode, then
\* engine.ts:71-74 and the loop again
blockReturn(r, result) ==
    /\ pc[r] = "await"
    /\ LET w == workflow[r]
           node == FindNode(w, cur[r])
       IN  \E E \in {executeNodeEnd(Frame(r), node, result)} :
           \E L \in {pushNext(w, E, node.id)} :
           \E D \in {runLoop(w, L, EngineAborted, abortController)} : Store(r, D)
    /\ outcome' = [outcome EXCEPT ![r] = Put(@, cur[r], Return(result))]
    /\ UNCHANGED <<abortController, aborted, workflow, calls, written, onLog, onNodeUpdate,
                   allNodeOutputs, fetching, storeState>>

\* blockThrow with the catch at engine.ts:63-69 ending in `continue` in place of
\* `throw error`: the failed node keeps its record and the loop goes on with the
\* queue
blockThrowContinue(r, thrown) ==
    /\ pc[r] = "await"
    /\ thrown.message = AbortMessage => aborted[signal[r]]
    /\ LET w == workflow[r]
           node == FindNode(w, cur[r])
       IN  \E F \in {nodeFailed(Frame(r), node, thrown)} :
           \E L \in {[Frame(r) EXCEPT !.execution = [F.execution EXCEPT !.endTime = FALSE]]} :
           \E D \in {runLoop(w, L, EngineAborted, abortController)} : Store(r, D)
    /\ outcome' = [outcome EXCEPT ![r] = Put(@, cur[r], Throw(thrown))]
    /\ UNCHANGED <<abortController, aborted, workflow, calls, written, onLog, onNodeUpdate,
                   allNodeOutputs, fetching, storeState>>

\* the block's promise rejects with `thrown`: engine.ts:177-185, 63-69, 82-91.
\* A rejection with the abort error comes from a call that the signal of the
\* block's context aborted.
blockThrow(r, thrown) ==
    /\ pc[r] = "await"
    /\ thrown.message = AbortMessage => aborted[signal[r]]
    /\ \E D \in {nodeFailed(Frame(r), FindNode(workflow[r], cur[r]), thrown)} : Store(r, D)
    /\ outcome' = [outcome EXCEPT ![r] = Put(@, cur[r], Throw(thrown))]
    /\ UNCHANGED <<abortController, aborted, workflow, calls, written, onLog, onNodeUpdate,
                   allNodeOutputs, fetching, storeState>>

\* stop() that also writes 'cancelled' into the record of the call that
\* created the controller
stopMarksCancelled ==
    /\ abortController # 0
    /\ aborted' = [aborted EXCEPT ![abortController] = TRUE]
    /\ execution' = [execution EXCEPT ![abortController].status = "cancelled"]
    /\ UNCHANGED <<abortController, pc, workflow, queue, visited,
                   nodeOutputs, cur, signal, calls, written, outcome, onLog, onNodeUpdate, updates,
                   allNodeOutputs, fetching, storeState>>

\* stop(), engine.ts:254-258
stop ==
    /\ abortController # 0
    /\ aborted' = [aborted EXCEPT ![abortController] = TRUE]
    /\ UNCHANGED <<abortController, pc, workflow, execution, queue, visited,
                   nodeOutputs, cur, signal, calls, written, outcome, onLog, onNodeUpdate, updates,
                   allNodeOutputs, fetching, storeState>>

\* ------------------------------------------------------------------ the store
\* startExecution hands each run to an engine of its own (startWorkflow,
\* engine.ts:273-282): the controller of the engine of run r is controller r,
\* and the observers of that engine are the two callbacks at copilot.ts:1641-1659.

\* the record the store keeps of `result` or of a new execution: node records
\* are held by reference, as (node id -> the run whose record it is)
Held(e, r) == [e EXCEPT !.nodeExecutions = [n \in DOMAIN e.nodeExecutions |-> r]]

\* copilot.ts:1641-1659: the two callbacks, for the log entries and the node
\* updates that run r emitted between frame L and frame D
callbacks(ce, r, L, D) ==
    LET logs == SubSeq(D.execution.logs, Len(L.execution.logs) + 1, Len(D.execution.logs))
        news == SubSeq(D.updates, Len(L.updates) + 1, Len(D.updates))
        ids  == {news[i].nodeId : i \in 1..Len(news)}
    IN  IF ce = Null THEN Null
        ELSE [ce EXCEPT !.logs = @ \o logs,
                        !.nodeExecutions = [n \in DOMAIN @ \cup ids |-> IF n \in ids THEN r ELSE @[n]]]

\* copilot.ts:1641-1683: what the step of run r from frame L to frame D does to
\* the store whose fields are ce, ex and en: the callbacks, then, when the
\* promise has settled, the code after `await promise` or the catch
settle(r, L, D, ce, ex, en) ==
    LET c1 == callbacks(ce, r, L, D)
    IN  IF D.pc = "done"
        THEN /\ currentExecution' = Held(D.execution, r)
             /\ isExecuting' = FALSE
             /\ engine' = 0
        ELSE IF D.pc = "rejected"
        THEN /\ currentExecution' = IF c1 = Null THEN Null
                                    ELSE [c1 EXCEPT !.status = "error", !.endTime = TRUE]
             /\ isExecuting' = FALSE
             /\ engine' = 0
        ELSE /\ currentExecution' = c1
             /\ isExecuting' = ex
             /\ engine' = en

\* startExecution(workflowId), copilot.ts:1613-1683, for a workflow of the
\* workspace, up to the first suspension of its engine
startExecution(r, w) ==
    /\ pc[r] = "idle"
    /\ IF r = 1 THEN TRUE ELSE pc[r - 1] # "idle"
    /\ aborted' = [aborted EXCEPT ![r] = FALSE]
    /\ workflow' = [workflow EXCEPT ![r] = w]
    /\ LET e0 == [logs |-> <<>>, status |-> "running", nodeExecutions |-> EmptyFn, endTime |-> FALSE]
       IN  \E D \in {executeWorkflowBody(w, r)} :
               Store(r, D) /\ settle(r, Frame(r), D, e0, TRUE, r)
    /\ UNCHANGED <<abortController, calls, written, outcome, onLog, onNodeUpdate,
                   allNodeOutputs, fetching>>

\* the block in flight in the engine of run r fulfils with `result`: the rest of
\* executeNode and the loop (engine.ts:149-170, 48-80), with the callbacks and
\* the completion at copilot.ts:1641-1670
runBlockReturn(r, result) ==
    /\ pc[r] = "await"
    /\ LET w == workflow[r]
           node == FindNode(w, cur[r])
       IN  \E E \in {executeNodeEnd(Frame(r), node, result)} :
           \E L \in {pushNext(w, E, node.id)} :
           \E D \in {runLoop(w, L, aborted[r], r)} :
               Store(r, D) /\ settle(r, Frame(r), D, currentExecution, isExecuting, engine)
    /\ outcome' = [outcome EXCEPT ![r] = Put(@, cur[r], Return(result))]
    /\ UNCHANGED <<abortController, aborted, workflow, calls, written, onLog, onNodeUpdate,
                   allNodeOutputs, fetching>>

\* the block in flight in the engine of run r rejects with `thrown`
\* (engine.ts:177-185, 63-69, 82-91), with the callbacks and the completion at
\* copilot.ts:1641-1670
runBlockThrow(r, thrown) ==
    /\ pc[r] = "await"
    /\ thrown.message = AbortMessage => aborted[signal[r]]
    /\ \E D \in {nodeFailed(Frame(r), FindNode(workflow[r], cur[r]), thrown)} :
           Store(r, D) /\ settle(r, Frame(r), D, currentExecution, isExecuting, engine)
    /\ outcome' = [outcome EXCEPT ![r] = Put(@, cur[r], Throw(thrown))]
    /\ UNCHANGED <<abortController, aborted, workflow, calls, written, onLog, onNodeUpdate,
                   allNodeOutputs, fetching>>

\* stopExecution(), copilot.ts:1685-1705, with engine.stop() (engine.ts:254-258)
stopExecution ==
    /\ aborted' = IF engine # 0 THEN [aborted EXCEPT ![engine] = TRUE] ELSE aborted
    /\ isExecuting' = FALSE
    /\ currentExecution' = IF currentExecution = Null THEN Null
                           ELSE [currentExecution EXCEPT !.status = "cancelled", !.endTime = TRUE]
    /\ engine' = 0
    /\ UNCHANGED <<abortController, pc, workflow, execution, queue, visited,
                   nodeOutputs, cur, signal, calls, written, outcome, onLog, onNodeUpdate, updates,
                   allNodeOutputs, fetching>>

\* clearExecution(), copilot.ts:1716-1722
clearExecution ==
    /\ currentExecution' = Null
    /\ isExecuting' = FALSE
    /\ UNCHANGED <<abortController, aborted, pc, workflow, execution, queue, visited,
                   nodeOutputs, cur, signal, calls, written, outcome, onLog, onNodeUpdate, updates,
                   allNodeOutputs, fetching, engine>>

\* ------------------------------------------------------------------ inputs
\* workflow.nodes with ids 1..n in array order (ids are opaque: any array of
\* distinct ids is this one renamed); an id above n names no node
NodeArray(types) == [i \in 1..Len(types) |-> [type |-> types[i], id |-> i]]

EdgeSets == {es \in SUBSET (Ids \X Ids) : Cardinality(es) <= MaxEdges}

\* Every graph within the bounds.  Two reductions lose no behaviour of the
\* engine: the starter, when it is a node, is first in workflow.nodes (it is
\* visited first, so engine.ts:73 never queues it and its place in the array
\* orders nothing), and at most one node has a type the registry does not
\* know (the run ends at the first such node it starts).  starterId = 0 names
\* no node.  The starter's block is "starter", the other blocks "api".
Workflows ==
    {[nodes |-> NodeArray([i \in 1..n |-> IF i = bogus THEN "bogus"
                                          ELSE IF i = 1 THEN "starter" ELSE "api"]),
      edges |-> es, starterId |-> s] :
        n \in 0..MaxNodes, bogus \in 0..MaxNodes, es \in EdgeSets, s \in {0, 1}}

\* every graph within the bounds whose nodes all have a block and whose edges
\* all join nodes, cycles and self-loops included, started at its first node
LiveWorkflows ==
    {w \in {[nodes |-> NodeArray([i \in 1..n |-> IF i = 1 THEN "starter" ELSE "api"]),
             edges |-> es, starterId |-> 1] : n \in 1..MaxNodes, es \in EdgeSets} :
        w.edges \subseteq (1..Len(w.nodes)) \X (1..Len(w.nodes))}

\* a producer alone, or a producer and a consumer
DataWorkflows ==
    {[nodes |-> NodeArray(ty), edges |-> IF Len(ty) = 2 THEN {<<1, 2>>} ELSE {}, starterId |-> 1] :
        ty \in {<<"starter">>, <<"api">>, <<"starter", "api">>, <<"api", "api">>}}

\* one node, or two in a chain
ReuseWorkflows ==
    {[nodes |-> NodeArray(ty), edges |-> es, starterId |-> 1] :
        ty \in [1..1 -> {"api"}] \cup [1..2 -> {"api"}], es \in SUBSET {<<1, 2>>}}

Thrown == {Err(AbortMessage), Err("request failed"), [message |-> "", isError |-> FALSE]}

Vals == {Num(n) : n \in 1..MaxVal}

SetKeys == {"a", "value"}

ResultKeys == {"a", "b"}

Results ==
    {Obj(f) : f \in UNION {[K -> Vals] : K \in SUBSET ResultKeys}}
        \cup {Num(0), Num(1), JsNull, JsUndefined, JsArray}

\* ---------------------------------------------------------- specifications
\* Spec: one call of executeWorkflow on every bounded workflow; blocks return
\* a record or throw
Next ==
    \/ pc[1] = "idle" /\ \E w \in Workflows : executeWorkflow(1, w)
    \/ blockReturn(1, Obj([a |-> Num(1)]))
    \/ \E thrown \in Thrown : blockThrow(1, thrown)
    \/ stop

Spec == Init /\ [][Next]_vars

\* SpecData: one call on a producer/consumer workflow, blocks using their context
NextData ==
    \/ pc[1] = "idle" /\ \E w \in DataWorkflows : executeWorkflow(1, w)
    \/ \E key \in SetKeys, value \in Vals : setNodeOutput(1, key, value)
    \/ contextLog(1)
    \/ \E result \in Results : blockReturn(1, result)
    \/ \E thrown \in Thrown : blockThrow(1, thrown)
    \/ stop

SpecData == Init /\ [][NextData]_vars

\* SpecReuse: up to MaxRuns overlapping calls of executeWorkflow on one engine
NextReuse ==
    \/ \E r \in Runs : pc[r] = "idle" /\ \E w \in ReuseWorkflows : executeWorkflow(r, w)
    \/ \E r \in Runs : blockReturn(r, Obj([a |-> Num(1)]))
    \/ \E r \in Runs, thrown \in Thrown : blockThrow(r, thrown)
    \/ stop

SpecReuse == Init /\ [][NextReuse]_vars

\* SpecStore: up to MaxRuns executions started through the store, each on an
\* engine of its own
NextStore ==
    \/ \E r \in Runs : pc[r] = "idle" /\ \E w \in ReuseWorkflows : startExecution(r, w)
    \/ \E r \in Runs : runBlockReturn(r, Obj([a |-> Num(1)]))
    \/ \E r \in Runs, thrown \in Thrown : runBlockThrow(r, thrown)
    \/ stopExecution
    \/ clearExecution

SpecStore == Init /\ [][NextStore]_vars

\* one call on an engine constructed with any two observers
NextObs ==
    \/ pc[1] = "idle" /\ \E w \in DataWorkflows : executeWorkflow(1, w)
    \/ blockReturn(1, Obj([a |-> Num(1)]))
    \/ \E thrown \in Thrown : blockThrow(1, thrown)
    \/ stop

SpecObs == InitObs /\ [][NextObs]_vars

\* the block in flight settles: the promise awaited at engine.ts:147 fulfils or rejects
Settle ==
    \/ blockReturn(1, Obj([a |-> Num(1)]))
    \/ \E thrown \in Thrown : blockThrow(1, thrown)

\* one call on a workflow of LiveWorkflows, with blocks that do not stay
\* pending forever
NextLive ==
    \/ pc[1] = "idle" /\ \E w \in LiveWorkflows : executeWorkflow(1, w)
    \/ Settle
    \/ stop

SpecLive == Init /\ [][NextLive]_vars /\ WF_vars(Settle)

\* the RequestInit a block passes to context.fetch: without a signal, or with
\* the signal of a controller of its own (api.ts:111-121)
Inits == {[signal |-> FALSE], [signal |-> TRUE]}

\* one call; blocks use every capability of the context
NextContext ==
    \/ pc[1] = "idle" /\ \E w \in DataWorkflows : executeWorkflow(1, w)
    \/ \E key \in {"a"}, value \in Vals : setNodeOutput(1, key, value)
    \/ getAllNodeOutputs(1)
    \/ \E nodeId \in Ids, value \in Vals : assignAllNodeOutputs(1, nodeId, "a", value)
    \/ \E init \in Inits : contextFetch(1, init)
    \/ blockReturn(1, Obj([a |-> Num(1)]))
    \/ \E thrown \in Thrown : blockThrow(1, thrown)
    \/ stop

SpecContext == Init /\ [][NextContext]_vars

\* ------------------------------------------------- vocabulary of the claims
NodeIdsOf(w) == {w.nodes[i].id : i \in 1..Len(w.nodes)}

\* the edges whose two ends are nodes of w
LiveEdges(w) == {e \in w.edges : e[1] \in NodeIdsOf(w) /\ e[2] \in NodeIdsOf(w)}

RECURSIVE Closure(_, _, _)
Closure(E, S, k) ==
    IF k = 0 THEN S ELSE Closure(E, S \cup {e[2] : e \in {d \in E : d[1] \in S}}, k - 1)

\* the nodes reachable from the starter along paths that avoid the nodes in `avoid`
ReachAvoiding(w, avoid) ==
    IF w.starterId \in NodeIdsOf(w) \ avoid
    THEN Closure({e \in LiveEdges(w) : e[1] \notin avoid /\ e[2] \notin avoid},
                 {w.starterId}, Len(w.nodes))
    ELSE {}

Reachable(w) == ReachAvoiding(w, {})

OnCycle(w, n) ==
    n \in Closure(LiveEdges(w), {e[2] : e \in {d \in LiveEdges(w) : d[1] = n}}, Len(w.nodes))

Acyclic(w) == \A n \in NodeIdsOf(w) : ~OnCycle(w, n)

CycleReachable(w) == \E n \in Reachable(w) : OnCycle(w, n)

\* the predecessors of n that are reachable from the starter
Preds(w, n) == {e[1] : e \in {d \in LiveEdges(w) : d[2] = n}} \cap Reachable(w)

\* the nodes reachable from the starter only through a
OnlyThrough(w, a) == (Reachable(w) \ {a}) \ ReachAvoiding(w, {a})

Dangling(w) == w.edges # LiveEdges(w)

Started(r) == DOMAIN execution[r].nodeExecutions

NodeStatus(r, n) == execution[r].nodeExecutions[n].status

\* node a of call r failed: its block threw, or its type has no executable block
Failed(r, a) ==
    \/ a \in DOMAIN outcome[r] /\ outcome[r][a].kind = "throw"
    \/ a \in Started(r) /\ getBlockConfig(FindNode(workflow[r], a).type) = None

WrittenBy(r, n) == IF n \in DOMAIN written[r] THEN written[r][n] ELSE EmptyFn

Slot(r, n) == IF n \in DOMAIN nodeOutputs[r] THEN nodeOutputs[r][n] ELSE EmptyFn

\* node n of call r returned `result`
Returned(r, n) == n \in DOMAIN outcome[r] /\ outcome[r][n].kind = "return"

\* ------------------------------------------------------------------ claims

\* C1: in an acyclic workflow no node has a record (is started) unless every
\* reachable node with an edge into it has status success.
TopologicalOrder ==
    \A r \in Runs : Acyclic(workflow[r]) =>
        \A n \in Started(r) : \A p \in Preds(workflow[r], n) :
            p \in Started(r) /\ NodeStatus(r, p) = "success"

\* C2: a call on a workflow with a cycle reachable from the starter executes no
\* node and creates no execution record.
CycleRejected ==
    \A r \in Runs : (pc[r] # "idle" /\ CycleReachable(workflow[r])) =>
        Started(r) = {} /\ execution[r] = NoExecution

\* C3: a call on a workflow whose starterId matches no node creates and returns
\* no execution record (the error goes to the caller) and executes no node.
MissingStarterRaised ==
    \A r \in Runs : (pc[r] # "idle" /\ ~HasNode(workflow[r], workflow[r].starterId)) =>
        execution[r] = NoExecution

\* C4: a call on a workflow with an edge whose source or target is no node
\* fails validation: the run is an error and no node has a record.
DanglingRejected ==
    \A r \in Runs : (pc[r] # "idle" /\ Dangling(workflow[r])) =>
        Started(r) = {} /\ execution[r].status = "error"

\* C5: when node a failed, no node reachable only through a has a record, the
\* run has returned with status error, and an error log entry references a.
NodeFailureStopsRun ==
    \A r \in Runs : \A a \in Ids : Failed(r, a) =>
        /\ \A b \in OnlyThrough(workflow[r], a) : b \notin Started(r)
        /\ pc[r] = "done" /\ execution[r].status = "error"
        /\ \E i \in 1..Len(execution[r].logs) :
              /\ execution[r].logs[i].level = "error"
              /\ execution[r].logs[i].nodeId = a \/ execution[r].logs[i].message.node = a

\* C5 witness: a node other than the starter failed and the workflow has nodes
\* reachable only through it.
NodeFailureWitness ==
    \E r \in Runs : \E a \in Ids :
        /\ Failed(r, a) /\ a # workflow[r].starterId
        /\ OnlyThrough(workflow[r], a) # {}

\* C6: once stop() has aborted the controller of call r, no step gives a record
\* to a node of call r that had none.
StopPreventsStart ==
    [][\A r \in Runs : aborted[r] => Started(r)' \subseteq Started(r)]_vars

\* C7: a call that is awaiting a block after stop() aborted its controller
\* returns with status cancelled.
CancelledAfterStop ==
    [][\A r \in Runs : (pc[r] = "await" /\ aborted[r] /\ pc'[r] = "done")
            => execution'[r].status = "cancelled"]_vars

\* C8: a node whose block was rejected by the abort of its signal has a record
\* with status cancelled.
AbortedNodeCancelled ==
    \A r \in Runs : \A n \in DOMAIN outcome[r] :
        outcome[r][n] = Throw(Err(AbortMessage)) => NodeStatus(r, n) = "cancelled"

\* C9: after a node returned a record, its registry slot has exactly the keys it
\* set and the keys it returned, with the returned value on every returned key
\* and the set value on the others.
ReturnWinsMerge ==
    \A r \in Runs : \A n \in DOMAIN outcome[r] :
        (Returned(r, n) /\ IsRecordResult(outcome[r][n].result)) =>
            LET ret == outcome[r][n].result.f
                set == WrittenBy(r, n)
            IN  /\ n \in DOMAIN nodeOutputs[r]
                /\ DOMAIN nodeOutputs[r][n] = (DOMAIN set) \cup (DOMAIN ret)
                /\ \A k \in DOMAIN ret : nodeOutputs[r][n][k] = ret[k]
                /\ \A k \in (DOMAIN set) \ (DOMAIN ret) : nodeOutputs[r][n][k] = set[k]

\* C9 witness: a node set {a: 1} and returned {a: 2, b: 1}.
ReturnWinsWitness ==
    \E r \in Runs : \E n \in DOMAIN outcome[r] :
        /\ Returned(r, n)
        /\ outcome[r][n].result = Obj([a |-> Num(2), b |-> Num(1)])
        /\ WrittenBy(r, n) = [a |-> Num(1)]

\* C10: after a node returned a value that is not a record, a later
\* getNodeOutput(node, 'value') returns that value.
NonRecordInRegistry ==
    \A r \in Runs : \A n \in DOMAIN outcome[r] :
        (Returned(r, n) /\ ~IsRecordResult(outcome[r][n].result)) =>
            getNodeOutput(r, n, "value") = outcome[r][n].result

\* C11: after the block of a node threw, the node's record has status error
\* and the message of the failure ('Unknown error' when the thrown value is no
\* Error), and the node's registry slot holds exactly what the node set with
\* setNodeOutput before it threw.
FailureKeepsSetOutputs ==
    \A r \in Runs : \A n \in DOMAIN outcome[r] :
        outcome[r][n].kind = "throw" =>
            LET thrown == outcome[r][n].thrown
                ne == execution[r].nodeExecutions[n]
            IN  /\ ne.status = "error"
                /\ ne.error = Some(IF thrown.isError THEN thrown.message ELSE "Unknown error")
                /\ Slot(r, n) = WrittenBy(r, n)

\* C11 witness: a node called setNodeOutput and then threw an Error.
FailureKeepsSetOutputsWitness ==
    \E r \in Runs : \E n \in DOMAIN outcome[r] :
        /\ outcome[r][n].kind = "throw" /\ outcome[r][n].thrown.isError
        /\ WrittenBy(r, n) # EmptyFn

\* C12: once a node of call r has failed, the signal of the call's
\* AbortController is aborted, and every node that returned a record before
\* still has its registry slot.
FailureAbortsController ==
    \A r \in Runs : \A a \in Ids : Failed(r, a) =>
        /\ aborted[r]
        /\ \A n \in DOMAIN outcome[r] :
              (Returned(r, n) /\ IsRecordResult(outcome[r][n].result)) =>
                  n \in DOMAIN nodeOutputs[r]

\* C13: after a block threw or a started node's type had no executable block,
\* the promise of the call is fulfilled (not rejected) with the record, and the
\* record has status error.
FailureResolvesWithError ==
    \A r \in Runs : \A a \in Ids : Failed(r, a) =>
        pc[r] = "done" /\ execution[r].status = "error"

\* C13 witness: the starter returned, then the second node's block threw a
\* value that is no Error, and the call has returned.
FailureResolvesWitness ==
    \E r \in Runs : \E a \in DOMAIN outcome[r] :
        /\ a # workflow[r].starterId /\ Returned(r, workflow[r].starterId)
        /\ outcome[r][a].kind = "throw" /\ ~outcome[r][a].thrown.isError
        /\ pc[r] = "done"

\* C14: on every workflow, cyclic ones included, when no block stays pending
\* forever a call that was made eventually returns: its promise is fulfilled
\* with the record, whose status is success, error or cancelled and whose
\* endTime is set.
RunTerminates ==
    \A r \in Runs :
        (pc[r] # "idle") ~>
            (/\ pc[r] = "done"
             /\ execution[r].status \in {"success", "error", "cancelled"}
             /\ execution[r].endTime)

\* C14 witness: a call on a workflow with a cycle reachable from the starter has
\* returned with status success after two or more blocks returned.
RunTerminatesWitness ==
    \E r \in Runs :
        /\ CycleReachable(workflow[r]) /\ Cardinality(DOMAIN outcome[r]) >= 2
        /\ pc[r] = "done" /\ execution[r].status = "success" /\ execution[r].endTime

\* C15: in an acyclic workflow, while the block of node a is in flight, every
\* other node that is ready (each node with an edge into it has status success)
\* and lies on a branch independent of a (no path joins the two) has been
\* started as well: it has a record.
ReadyNodesStartTogether ==
    \A r \in Runs : \A a \in Ids, b \in Ids :
        LET w == workflow[r]
            from(n) == Closure(LiveEdges(w), {n}, Len(w.nodes))
        IN  (/\ pc[r] = "await" /\ cur[r] = a /\ Acyclic(w)
             /\ b \in Reachable(w) /\ b # a /\ b \notin from(a) /\ a \notin from(b)
             /\ Preds(w, b) # {}
             /\ \A p \in Preds(w, b) : p \in Started(r) /\ NodeStatus(r, p) = "success")
            => b \in Started(r)

\* the nodes of call r whose type has no executable block
Unresolvable(r) ==
    {a \in NodeIdsOf(workflow[r]) : getBlockConfig(FindNode(workflow[r], a).type) = None}

\* C16: a node whose type has no executable block fails when the engine starts
\* it and not before.  Once it has a record, the record has status error and
\* the message, the log has an error entry tagged with its id, and every node
\* started before it has returned; while it has no record, no log entry names it.
UnresolvableFailsAtStart ==
    \A r \in Runs : \A a \in Unresolvable(r) :
        LET logs == execution[r].logs
        IN  IF a \in Started(r)
            THEN /\ NodeStatus(r, a) = "error"
                 /\ execution[r].nodeExecutions[a].error = Some("Block type not found or not executable")
                 /\ \E i \in 1..Len(logs) : logs[i].level = "error" /\ logs[i].nodeId = a
                 /\ \A b \in Started(r) \ {a} : Returned(r, b)
            ELSE \A i \in 1..Len(logs) : logs[i].nodeId # a /\ logs[i].message.node # a

\* C16 witness: a node with an unresolvable type, reached through two nodes
\* that returned, has its record.
UnresolvableFailsWitness ==
    \E r \in Runs : \E a \in Unresolvable(r) :
        a \in Started(r) /\ Cardinality(DOMAIN outcome[r]) = 2

\* C17: the record of a call has status running while the call is suspended,
\* and once its status is success, error or cancelled no step changes it.
RunStatusFrozen ==
    /\ [](\A r \in Runs : pc[r] = "await" => execution[r].status = "running")
    /\ [][\A r \in Runs :
            execution[r].status \in {"success", "error", "cancelled"} =>
                execution'[r].status = execution[r].status]_vars

\* C17 witness: the first call has returned with status error, and after that
\* the engine was stopped and a second call is suspended.
RunStatusFrozenWitness ==
    /\ pc[1] = "done" /\ execution[1].status = "error"
    /\ aborted[1] /\ pc[2] = "await"

\* C18: while a call is suspended, every node of its workflow that the loop
\* has not reached yet has a record with status pending; and once the status
\* of a node's record is success, error or cancelled, no step changes it.
NodeLifecycle ==
    /\ [](\A r \in Runs : pc[r] = "await" =>
            \A n \in NodeIdsOf(workflow[r]) \ visited[r] :
                n \in Started(r) /\ NodeStatus(r, n) = "pending")
    /\ [][\A r \in Runs : \A n \in Started(r) :
            NodeStatus(r, n) \in {"success", "error", "cancelled"} =>
                /\ n \in DOMAIN execution'[r].nodeExecutions
                /\ execution'[r].nodeExecutions[n].status = NodeStatus(r, n)]_vars


\* C19: the onNodeUpdate observer has received every status a node's record
\* has taken: for each record there is a notification with the node's id and
\* the record's present status.
StatusChangesDelivered ==
    \A r \in Runs : onNodeUpdate # "none" =>
        \A n \in Started(r) :
            \E i \in 1..Len(updates[r]) :
                updates[r][i] = [nodeId |-> n, status |-> NodeStatus(r, n)]

\* C20: whatever the observers do, a call ends as it ends on an engine without
\* observers: its promise is never rejected, and when every block returned and
\* stop() was not called it returns with status success, having started
\* exactly the nodes reachable from the starter, each with status success.
ObserversCannotInfluence ==
    \A r \in Runs :
        /\ pc[r] # "rejected"
        /\ (/\ pc[r] = "done" /\ ~aborted[r]
            /\ \A n \in DOMAIN outcome[r] : Returned(r, n))
           => /\ execution[r].status = "success"
              /\ Started(r) = Reachable(workflow[r])
              /\ \A n \in Started(r) : NodeStatus(r, n) = "success"

\* C21: the value that getNodeOutput('*') returned is a snapshot.  What the
\* block that keeps it reads through it is what the registry held at the call
\* plus what the block itself assigned into the value, and a step that assigns
\* into the value leaves the registry as it was.
WildcardIsSnapshot ==
    /\ [](\A r \in Runs :
            (pc[r] = "await" /\ allNodeOutputs[r].node = cur[r]) =>
                readAllNodeOutputs(r) = allNodeOutputs[r].seen)
    /\ [][\A r \in Runs :
            (allNodeOutputs[r].node # NoNode /\ allNodeOutputs'[r].seen # allNodeOutputs[r].seen) =>
                nodeOutputs'[r] = nodeOutputs[r]]_vars

\* slot n of a registry value, empty when absent
SlotOf(registry, n) == IF n \in DOMAIN registry THEN registry[n] ELSE EmptyFn

\* C22: no step removes a slot or a key of the registry, and while the block
\* of node N is in flight a step changes no slot but N's.
OnlyProducerWrites ==
    [][\A r \in Runs :
          /\ \A n \in DOMAIN nodeOutputs[r] :
                /\ n \in DOMAIN nodeOutputs'[r]
                /\ DOMAIN nodeOutputs[r][n] \subseteq DOMAIN nodeOutputs'[r][n]
          /\ pc[r] = "await" =>
                \A n \in Ids \ {cur[r]} :
                    SlotOf(nodeOutputs'[r], n) = SlotOf(nodeOutputs[r], n)]_vars

\* C23: once the block of a node has settled, no step changes the node's
\* registry slot, so getNodeOutput of the node returns the same value ever after.
CompletedSlotFrozen ==
    [][\A r \in Runs : \A n \in DOMAIN outcome[r] :
          /\ SlotOf(nodeOutputs'[r], n) = SlotOf(nodeOutputs[r], n)
          /\ getNodeOutput(r, n, "")' = getNodeOutput(r, n, "")]_vars


\* C24: when the run is cancelled while a call made through the context's fetch
\* is in flight, that call is aborted, whatever request options (a signal of
\* the caller included) the node passed
CancelAbortsFetch ==
    \A r \in Runs :
        (pc[r] = "await" /\ fetching[r].node = cur[r] /\ aborted[signal[r]]) => FetchAborted(r)


\* C25: cancellation state is per run: the signal handed to the node a call is
\* awaiting is the signal of the controller created for that call, and no step
\* that starts another call changes it.
CancellationPerRun ==
    /\ [](\A r \in Runs : pc[r] = "await" => signal[r] = r)
    /\ [][\A r \in Runs : (pc[r] = "await" /\ pc'[r] = "await" /\ cur'[r] = cur[r]) =>
            signal'[r] = signal[r]]_vars


\* C26: after any node of a call has failed, no other node is started in that
\* call: a step after which some record of the call has status error gives a
\* record to no node but one that failed in that step, queued nodes included.
NoStartAfterFailure ==
    [][\A r \in Runs :
          (\E a \in Started(r)' : NodeStatus(r, a)' = "error") =>
              \A n \in Started(r)' \ Started(r) : NodeStatus(r, n)' = "error"]_vars

\* C26 witness: a call has returned after its node 2 failed while node 3, which
\* does not depend on node 2, was queued; node 3 has no record.
NoStartAfterFailureWitness ==
    \E r \in Runs :
        /\ pc[r] = "done" /\ 2 \in Started(r) /\ NodeStatus(r, 2) = "error"
        /\ 3 \in NodeIdsOf(workflow[r]) /\ 3 \notin Started(r)
        /\ queue[r] = <<3>>
        /\ <<2, 3>> \notin workflow[r].edges


\* C27: within one call every node is executed at most once, whatever paths,
\* parallel edges or cycles lead to it: a step that hands a node to executeNode
\* hands over a node that had no record; and a node that is not reachable from
\* the starter is never executed and gets no record.
ExecutedAtMostOnce ==
    /\ [](\A r \in Runs : Started(r) \subseteq Reachable(workflow[r]))
    /\ [][\A r \in Runs :
            (pc'[r] = "await" /\ (pc[r] # "await" \/ cur'[r] # cur[r] \/ outcome'[r] # outcome[r]))
                => cur'[r] \notin Started(r)]_vars

\* C27 witness: a call on a workflow with a cycle through node 2 and a node 3
\* that is not reachable has returned; node 2 was executed and node 3 was not.
ExecutedAtMostOnceWitness ==
    \E r \in Runs :
        /\ pc[r] = "done" /\ execution[r].status = "success"
        /\ OnCycle(workflow[r], 2) /\ 2 \in DOMAIN outcome[r]
        /\ 3 \in NodeIdsOf(workflow[r]) \ Reachable(workflow[r])
        /\ 3 \notin Started(r)


StoppedStaysCancelled ==
    [][\A r \in Runs :
          (/\ pc[r] = "await" /\ aborted[r] /\ \A q \in Runs : q > r => pc'[q] = "idle"
           /\ currentExecution.status = "cancelled" /\ ~isExecuting
           /\ currentExecution' # Null)
          => (currentExecution'.status = "cancelled" /\ ~isExecuting')]_vars

\* C30: in the store, the callbacks and the completion of a run that was
\* stopped never modify a run started afterwards: while a later run is in
\* progress and is the current execution, no step of the stopped run changes
\* currentExecution, _engine or isExecuting.
StoppedRunLeavesNewRun ==
    [][\A q, r \in Runs :
          (/\ q < r /\ aborted[q] /\ pc[q] = "await" /\ pc[r] = "await"
           /\ engine = r /\ isExecuting
           /\ execution'[q] # execution[q])
          => (currentExecution' = currentExecution /\ isExecuting' /\ engine' = engine)]_vars
====
